---- MODULE Spec2Model ----
(***************************************************************************)
(* Model of gs.py, the "Similar Literature Finder" page: the normalizer    *)
(* parse_scholarly_papers, the link renderer make_clickable and the page   *)
(* script main() as a state machine over one user session.                 *)
(*                                                                         *)
(* Python values are tagged, [t |-> type, v |-> value], so that a str, an  *)
(* int and None can sit in one column.  A str is the sequence of its       *)
(* characters, so joining, formatting and parsing are computed.            *)
(***************************************************************************)
EXTENDS Integers, Sequences, FiniteSets, TLC

VARIABLES
    uploaded_file,  \* the file in the uploader, NoFile when there is none
    state,          \* Idle, FileError, SchemaError, Ready or Fetching
    widgets,        \* the sidebar widgets the last run of the script drew
    error,          \* the st.error message on the page, "" when there is none
    table,          \* the results table on the page: << >> or <<DataFrame>>
    top_n,          \* the selected number of papers
    sort_by,        \* the selected sort column
    pc,             \* where the button handler is, "idle" outside it
    papers,         \* main's list of pulled hits
    calls,          \* next(search_results) calls made by the fetch loop
    exhausted,      \* the fetch loop saw StopIteration
    papers_df       \* main's DataFrame

vars == <<uploaded_file, state, widgets, error, table, top_n, sort_by,
          pc, papers, calls, exhausted, papers_df>>

page == <<state, widgets, error, table>>
locals == <<papers, calls, exhausted, papers_df>>

(***************************************************************************)
(* Bounds of the model.                                                    *)
(***************************************************************************)
\* The first MaxVaried hits of a search stream are arbitrary hits of HitPool.
MaxVaried == 3
\* Longest hit sequence given to the normalizer on its own.
MaxHits == 3
\* Largest limit given to the normalizer on its own.
MaxLimit == 3

(***************************************************************************)
(* Python values.                                                          *)
(***************************************************************************)
Str(s) == [t |-> "str", v |-> s]
Int_(n) == [t |-> "int", v |-> n]
None == [t |-> "None", v |-> 0]
NaN == [t |-> "nan", v |-> 0]

\* The literal 'N/A' of the source.
NA == Str(<<"N", "/", "A">>)

Min(a, b) == IF a <= b THEN a ELSE b

\* dict.get(key, default)
Get(d, k, default) == IF k \in DOMAIN d THEN d[k] ELSE default

\* The empty dict {}.
EmptyDict == << >>

\* Slice with the bound off by one: seq[:n + 1].
SliceOneMore(seq, n) == SubSeq(seq, 1, Min(n + 1, Len(seq)))

\* seq[:n] for n >= 0
Slice(seq, n) == SubSeq(seq, 1, Min(n, Len(seq)))

\* sep.join(list) on a list of str
RECURSIVE Join(_, _)
Join(sep, list) ==
    IF list = << >> THEN << >>
    ELSE IF Len(list) = 1 THEN list[1].v
    ELSE list[1].v \o sep \o Join(sep, Tail(list))

CommaSpace == <<",", " ">>

(***************************************************************************)
(* parse_scholarly_papers                                                  *)
(***************************************************************************)
expected_columns ==
    <<"Title", "Authors", "Publication Year", "Number of Citations", "Link">>

\* PaperRow with the marker, not the number 0, for a missing citation count.
PaperRowMarkerCitations(paper) ==
    LET bib == Get(paper, "bib", EmptyDict)
        title == Get(bib, "title", NA)
        authors == Str(Join(CommaSpace, Get(bib, "author", << >>)))
        pub_year == Get(bib, "pub_year", NA)
        citations == Get(paper, "num_citations", NA)
        url == Get(paper, "pub_url", NA)
    IN [c \in {"Title", "Authors", "Publication Year", "Number of Citations", "Link"} |->
          CASE c = "Title" -> title
            [] c = "Authors" -> authors
            [] c = "Publication Year" -> pub_year
            [] c = "Number of Citations" -> citations
            [] c = "Link" -> url]

\* The dict appended to data for one paper: column name -> value.
PaperRow(paper) ==
    LET bib == Get(paper, "bib", EmptyDict)
        title == Get(bib, "title", NA)
        authors == Str(Join(CommaSpace, Get(bib, "author", << >>)))
        pub_year == Get(bib, "pub_year", NA)
        citations == Get(paper, "num_citations", Int_(0))
        url == Get(paper, "pub_url", NA)
    IN [c \in {"Title", "Authors", "Publication Year", "Number of Citations", "Link"} |->
          CASE c = "Title" -> title
            [] c = "Authors" -> authors
            [] c = "Publication Year" -> pub_year
            [] c = "Number of Citations" -> citations
            [] c = "Link" -> url]

\* The keys of that dict, in insertion order.
RowKeys ==
    <<"Title", "Authors", "Publication Year", "Number of Citations", "Link">>

Range(seq) == {seq[i] : i \in DOMAIN seq}

\* pd.DataFrame(data): the columns are the keys of the dicts, none for no data.
DataFrame(data) ==
    [columns |-> IF data = << >> THEN << >> ELSE RowKeys,
     rows |-> data]

\* df[col] = None
SetColumnNone(df, col) ==
    [columns |-> IF col \in Range(df.columns) THEN df.columns
                 ELSE Append(df.columns, col),
     rows |-> [i \in DOMAIN df.rows |->
                 [c \in DOMAIN df.rows[i] \cup {col} |->
                     IF c = col THEN None ELSE df.rows[i][c]]]]

\* for col in expected_columns: if col not in df.columns: df[col] = None
RECURSIVE FillMissingColumns(_, _)
FillMissingColumns(df, cols) ==
    IF cols = << >> THEN df
    ELSE FillMissingColumns(
            IF Head(cols) \in Range(df.columns) THEN df
            ELSE SetColumnNone(df, Head(cols)),
            Tail(cols))

\* What a call that raises KeyError yields.
KeyError == [raised |-> "KeyError"]

\* df[cols]: KeyError when a column of cols is not in df.
SelectColumns(df, cols) ==
    IF Range(cols) \subseteq Range(df.columns)
    THEN [columns |-> cols,
          rows |-> [i \in DOMAIN df.rows |-> [c \in Range(cols) |-> df.rows[i][c]]]]
    ELSE KeyError

RECURSIVE ParseData(_)
ParseData(ps) ==
    IF ps = << >> THEN << >>
    ELSE <<PaperRow(Head(ps))>> \o ParseData(Tail(ps))

\* parse_scholarly_papers without the cap: every paper is parsed.
parse_scholarly_papers_uncapped(ps, n) ==
    SelectColumns(
        FillMissingColumns(DataFrame(ParseData(ps)), expected_columns),
        expected_columns)

parse_scholarly_papers(ps, n) ==
    SelectColumns(
        FillMissingColumns(DataFrame(ParseData(Slice(ps, n))), expected_columns),
        expected_columns)

(***************************************************************************)
(* make_clickable                                                          *)
(***************************************************************************)
\* Python truth value of a str, an int or None.
Truthy(x) ==
    CASE x.t = "str" -> x.v # << >>
      [] x.t = "int" -> x.v # 0
      [] OTHER -> FALSE

AnchorOpen == <<"<", "a", " ", "h", "r", "e", "f", "=", "\"">>
AnchorMid == <<"\"", " ", "t", "a", "r", "g", "e", "t", "=", "\"",
               "_", "b", "l", "a", "n", "k", "\"", ">">>
AnchorText == <<"V", "i", "e", "w", " ", "P", "a", "p", "e", "r">>
AnchorClose == <<"<", "/", "a", ">">>

\* make_clickable without the test for the marker.
make_clickable_marker_linked(link) ==
    IF Truthy(link)
    THEN Str(AnchorOpen \o link.v \o AnchorMid \o AnchorText \o AnchorClose)
    ELSE NA

make_clickable(link) ==
    IF Truthy(link) /\ link # NA
    THEN Str(AnchorOpen \o link.v \o AnchorMid \o AnchorText \o AnchorClose)
    ELSE NA

\* df[col] = df[col].apply(f), for f = make_clickable
ApplyMakeClickable(df, col) ==
    [df EXCEPT !.rows = [i \in DOMAIN df.rows |->
        [df.rows[i] EXCEPT ![col] = make_clickable(df.rows[i][col])]]]

(***************************************************************************)
(* The pandas steps of main()                                              *)
(***************************************************************************)
\* df.drop_duplicates(subset=col): a row stays unless an earlier row has its
\* value in col; the rows that stay keep their order.
RECURSIVE KeepFirst(_, _, _)
KeepFirst(rows, col, seen) ==
    IF rows = << >> THEN << >>
    ELSE IF Head(rows)[col] \in seen THEN KeepFirst(Tail(rows), col, seen)
    ELSE <<Head(rows)>> \o KeepFirst(Tail(rows), col, seen \cup {Head(rows)[col]})

\* drop_duplicates(keep='last'): a row stays unless a later row has its value.
drop_duplicates_keep_last(df, col) ==
    [df EXCEPT !.rows =
        LET Rev(q) == [i \in DOMAIN q |-> q[Len(q) + 1 - i]]
        IN Rev(KeepFirst(Rev(df.rows), col, {}))]

drop_duplicates(df, col) == [df EXCEPT !.rows = KeepFirst(df.rows, col, {})]

Digits == {"0", "1", "2", "3", "4", "5", "6", "7", "8", "9"}

DigitValue(c) ==
    CASE c = "0" -> 0 [] c = "1" -> 1 [] c = "2" -> 2 [] c = "3" -> 3
      [] c = "4" -> 4 [] c = "5" -> 5 [] c = "6" -> 6 [] c = "7" -> 7
      [] c = "8" -> 8 [] c = "9" -> 9

RECURSIVE Decimal(_, _)
Decimal(s, acc) ==
    IF s = << >> THEN acc ELSE Decimal(Tail(s), 10 * acc + DigitValue(Head(s)))

\* pd.to_numeric(x, errors='coerce') on one value: a number stays, a str of
\* decimal digits is parsed, any other str of the alphabet used here and None
\* become NaN.
to_numeric(x) ==
    CASE x.t = "int" -> x
      [] x.t = "str" ->
            IF x.v # << >> /\ Range(x.v) \subseteq Digits
            THEN Int_(Decimal(x.v, 0)) ELSE NaN
      [] OTHER -> NaN

fillna(x, value) == IF x.t = "nan" THEN Int_(value) ELSE x

\* df[col] = pd.to_numeric(df[col], errors='coerce').fillna(0).astype(int)
CoerceColumn(df, col) ==
    [df EXCEPT !.rows = [i \in DOMAIN df.rows |->
        [df.rows[i] EXCEPT ![col] = fillna(to_numeric(df.rows[i][col]), 0)]]]

\* The key order of an ascending sort.
InSortOrderAscending(a, b) == a <= b

\* The key order sort_values(ascending=False) produces.
InSortOrder(a, b) == a >= b

\* df.sort_values(by=col, ascending=False) with the default kind='quicksort',
\* which is not a stable sort: every arrangement of the rows that is in
\* descending order of col is a possible outcome.
sort_values(df, col) ==
    {[df EXCEPT !.rows = [i \in DOMAIN df.rows |-> df.rows[p[i]]]] :
        p \in {q \in Permutations(DOMAIN df.rows) :
                 \A i, j \in DOMAIN df.rows :
                    i < j => InSortOrder(df.rows[q[i]][col].v, df.rows[q[j]][col].v)}}

(***************************************************************************)
(* Inputs: search hits and uploaded files                                  *)
(***************************************************************************)
Y2020 == <<"2", "0", "2", "0">>
Y2021 == <<"2", "0", "2", "1">>
HttpX == <<"h", "t", "t", "p", ":", "/", "/", "x">>

PaperA1 ==
    [bib |-> [title |-> Str(<<"A">>), author |-> <<Str(<<"X">>), Str(<<"Y">>)>>,
              pub_year |-> Str(Y2020)],
     num_citations |-> Int_(5), pub_url |-> Str(HttpX)]
\* Same title as PaperA1, other fields differ; no authors.
PaperA2 ==
    [bib |-> [title |-> Str(<<"A">>), pub_year |-> Str(Y2021)],
     num_citations |-> Int_(9), pub_url |-> Str(<<"v">>)]
\* Ties with PaperA1 on both sort keys; the year is a number; no url.
PaperC ==
    [bib |-> [title |-> Str(<<"C">>), author |-> <<Str(<<"Z">>)>>,
              pub_year |-> Int_(2020)],
     num_citations |-> Int_(5)]
\* The year is the marker, the url is the empty string; no citation count.
PaperB ==
    [bib |-> [title |-> Str(<<"B">>), pub_year |-> NA], pub_url |-> Str(<< >>)]
\* A hit with no fields at all.
PaperNoFields == EmptyDict

\* The hits a search stream of the session yields.
HitPool == {PaperA1, PaperA2, PaperB, PaperC}

\* f restricted to the keys in S: a dict with the other keys missing.
Restrict(f, S) == [k \in S |-> f[k]]

\* Every hit with any subset of the five consumed fields missing.
AllHits ==
    LET bibs == UNION {
            {Restrict([title |-> ti, author |-> au, pub_year |-> py], S) :
                S \in SUBSET {"title", "author", "pub_year"}} :
            ti \in {Str(<<"A">>), Str(<<"B">>)},
            au \in {<< >>, <<Str(<<"X">>)>>, <<Str(<<"X">>), Str(<<"Y">>)>>},
            py \in {Str(Y2020), Int_(2021), NA}}
    IN UNION {
            {Restrict([bib |-> b, num_citations |-> nc, pub_url |-> pu], S) :
                S \in SUBSET {"bib", "num_citations", "pub_url"}} :
            b \in bibs, nc \in {Int_(0), Int_(7)}, pu \in {Str(HttpX), Str(<< >>), NA}}

\* Sequences over S of length at most n.
SeqsUpTo(S, n) == UNION {[1..k -> S] : k \in 0..n}

NoFile == [readable |-> FALSE, columns |-> {}, names |-> 0, present |-> FALSE]

required_columns == {"Category (Value Chain)", "Technology Type", "Technology Name"}

\* An uploaded file: whether pd.read_excel reads it, the columns of the table
\* read, and the number of distinct non-null technology names in it.
Files ==
    [readable : BOOLEAN, columns : SUBSET required_columns, names : {0, 1},
     present : {TRUE}]

top_n_options == {10, 20, 30}
sort_options == {"Publication Year", "Number of Citations"}
\* What a selectbox shows before the user chooses: its first option.
DefaultTopN == 10
DefaultSortBy == "Publication Year"

ReadErrorMsg == "Error reading the file"
SchemaErrorMsg == "The file must contain these columns"
NoPapersMsg == "No papers found for the selected technology."
FetchErrorMsg == "Error fetching papers"

EmptyFrame == [columns |-> << >>, rows |-> << >>]

(***************************************************************************)
(* main(): one run of the page script per user action                      *)
(***************************************************************************)
\* any(...) in place of all(...).
HasSomeRequiredColumn(columns) == \E col \in required_columns : col \in columns

\* all(col in df.columns for col in required_columns)
HasRequiredColumns(columns) == \A col \in required_columns : col \in columns

\* One pull too many: range(top_n * 2 + 1).
FetchCapOneMore(n) == n * 2 + 1

\* range(top_n * 2)
FetchCap(n) == n * 2

\* The two sort branches swapped.
SortColumnSwapped(by) ==
    IF by = "Number of Citations" THEN "Publication Year" ELSE "Number of Citations"

\* The column the sort branch coerces and sorts by.
SortColumn(by) ==
    IF by = "Number of Citations" THEN "Number of Citations" ELSE "Publication Year"

\* A run of the script with file f in the uploader and the button not pressed:
\* the state of the page it leaves.
ScriptRun(f) ==
    IF ~f.present
    THEN [state |-> "Idle", error |-> "", widgets |-> {"file_uploader"}]
    ELSE IF ~f.readable
    THEN [state |-> "FileError", error |-> ReadErrorMsg, widgets |-> {"file_uploader"}]
    ELSE IF ~HasRequiredColumns(f.columns)
    THEN [state |-> "SchemaError", error |-> SchemaErrorMsg,
          widgets |-> {"file_uploader"}]
    ELSE IF f.names = 0
    THEN \* selected_technology is None, .iloc[0] raises IndexError, and the
         \* outer except reports it
         [state |-> "FileError", error |-> ReadErrorMsg,
          widgets |-> {"file_uploader", "technology"}]
    ELSE [state |-> "Ready", error |-> "",
          widgets |-> {"file_uploader", "technology", "top_n", "sort_by", "button"}]

\* The page after a rerun with file f; a selectbox that was not drawn in the
\* last run starts from its first option.
Rerun(f) ==
    LET r == ScriptRun(f) IN
    /\ state' = r.state
    /\ error' = r.error
    /\ widgets' = r.widgets
    /\ table' = << >>
    /\ top_n' = IF "top_n" \in widgets /\ "top_n" \in r.widgets
                THEN top_n ELSE DefaultTopN
    /\ sort_by' = IF "sort_by" \in widgets /\ "sort_by" \in r.widgets
                  THEN sort_by ELSE DefaultSortBy

NoLocals ==
    /\ papers' = << >>
    /\ calls' = 0
    /\ exhausted' = FALSE
    /\ papers_df' = EmptyFrame

Init ==
    /\ uploaded_file = NoFile
    /\ state = "Idle"
    /\ widgets = {"file_uploader"}
    /\ error = ""
    /\ table = << >>
    /\ top_n = DefaultTopN
    /\ sort_by = DefaultSortBy
    /\ pc = "idle"
    /\ papers = << >>
    /\ calls = 0
    /\ exhausted = FALSE
    /\ papers_df = EmptyFrame

Upload(f) ==
    /\ state # "Fetching"
    /\ pc = "idle"
    /\ uploaded_file' = f
    /\ Rerun(f)
    /\ UNCHANGED <<pc, locals>>

RemoveFile ==
    /\ state # "Fetching"
    /\ pc = "idle"
    /\ uploaded_file.present
    /\ uploaded_file' = NoFile
    /\ Rerun(NoFile)
    /\ UNCHANGED <<pc, locals>>

SelectTopN(n) ==
    /\ state = "Ready"
    /\ n # top_n
    /\ top_n' = n
    /\ error' = ""
    /\ table' = << >>
    /\ UNCHANGED <<uploaded_file, state, widgets, sort_by, pc, locals>>

SelectSortBy(by) ==
    /\ state = "Ready"
    /\ by # sort_by
    /\ sort_by' = by
    /\ error' = ""
    /\ table' = << >>
    /\ UNCHANGED <<uploaded_file, state, widgets, top_n, pc, locals>>

\* The button is pressed: the script reruns and enters the handler.
ClickRetrieve ==
    /\ state = "Ready"
    /\ "button" \in widgets
    /\ state' = "Fetching"
    /\ pc' = "search"
    /\ error' = ""
    /\ table' = << >>
    /\ UNCHANGED <<uploaded_file, widgets, top_n, sort_by, locals>>

\* The handler returns: the page is Ready again.
Return ==
    /\ state' = "Ready"
    /\ pc' = "idle"
    /\ NoLocals
    /\ UNCHANGED <<uploaded_file, widgets, top_n, sort_by>>

SearchReturns ==
    /\ pc = "search"
    /\ pc' = "loop"
    /\ UNCHANGED <<uploaded_file, page, top_n, sort_by, locals>>

SearchRaises ==
    /\ pc = "search"
    /\ pc' = "except"
    /\ UNCHANGED <<uploaded_file, page, top_n, sort_by, locals>>

\* The hit at position n of a stream may differ from the one before it.
FreshAllowed(n) == n <= MaxVaried \/ n = top_n + 1

NextYields(h) ==
    /\ pc = "loop"
    /\ calls < FetchCap(top_n)
    /\ IF FreshAllowed(Len(papers) + 1) THEN TRUE ELSE h = papers[Len(papers)]
    /\ papers' = Append(papers, h)
    /\ calls' = calls + 1
    /\ UNCHANGED <<uploaded_file, page, top_n, sort_by, pc, exhausted, papers_df>>

\* The stream lengths explored: a stream ends, or fails, after few hits or
\* next to the cap of the normalizer or the cap of the fetch loop.
EndAllowed(n) ==
    n <= MaxVaried + 1 \/ n \in {top_n - 1, top_n, top_n + 1, top_n * 2 - 1}

NextStops ==
    /\ pc = "loop"
    /\ calls < FetchCap(top_n)
    /\ EndAllowed(Len(papers))
    /\ calls' = calls + 1
    /\ exhausted' = TRUE
    /\ pc' = "after_loop"
    /\ UNCHANGED <<uploaded_file, page, top_n, sort_by, papers, papers_df>>

NextRaises ==
    /\ pc = "loop"
    /\ calls < FetchCap(top_n)
    /\ EndAllowed(Len(papers))
    /\ calls' = calls + 1
    /\ pc' = "except"
    /\ UNCHANGED <<uploaded_file, page, top_n, sort_by, papers, exhausted, papers_df>>

LoopEnds ==
    /\ pc = "loop"
    /\ calls >= FetchCap(top_n)
    /\ pc' = "after_loop"
    /\ UNCHANGED <<uploaded_file, page, top_n, sort_by, locals>>

\* NoPapers without its return: the message is shown and the handler goes on.
NoPapersGoesOn ==
    /\ pc = "after_loop"
    /\ papers = << >>
    /\ error' = NoPapersMsg
    /\ papers_df' = parse_scholarly_papers(papers, top_n)
    /\ pc' = "dedupe"
    /\ UNCHANGED <<uploaded_file, state, widgets, table, top_n, sort_by,
                   papers, calls, exhausted>>

NoPapers ==
    /\ pc = "after_loop"
    /\ papers = << >>
    /\ error' = NoPapersMsg
    /\ table' = table
    /\ Return

Parse ==
    /\ pc = "after_loop"
    /\ papers # << >>
    /\ papers_df' = parse_scholarly_papers(papers, top_n)
    /\ pc' = "dedupe"
    /\ UNCHANGED <<uploaded_file, page, top_n, sort_by, papers, calls, exhausted>>

Dedupe ==
    /\ pc = "dedupe"
    /\ papers_df' = drop_duplicates(papers_df, "Title")
    /\ pc' = "sort"
    /\ UNCHANGED <<uploaded_file, page, top_n, sort_by, papers, calls, exhausted>>

Sort ==
    /\ pc = "sort"
    /\ papers_df' \in sort_values(CoerceColumn(papers_df, SortColumn(sort_by)),
                                  SortColumn(sort_by))
    /\ pc' = "links"
    /\ UNCHANGED <<uploaded_file, page, top_n, sort_by, papers, calls, exhausted>>

Links ==
    /\ pc = "links"
    /\ papers_df' = ApplyMakeClickable(papers_df, "Link")
    /\ pc' = "write"
    /\ UNCHANGED <<uploaded_file, page, top_n, sort_by, papers, calls, exhausted>>

Write ==
    /\ pc = "write"
    /\ table' = <<papers_df>>
    /\ error' = error
    /\ Return

Except ==
    /\ pc = "except"
    /\ error' = FetchErrorMsg
    /\ table' = table
    /\ Return

Next ==
    \/ \E f \in Files : Upload(f)
    \/ RemoveFile
    \/ \E n \in top_n_options : SelectTopN(n)
    \/ \E by \in sort_options : SelectSortBy(by)
    \/ ClickRetrieve
    \/ SearchReturns
    \/ SearchRaises
    \/ \E h \in HitPool : NextYields(h)
    \/ NextStops
    \/ NextRaises
    \/ LoopEnds
    \/ NoPapers
    \/ Parse
    \/ Dedupe
    \/ Sort
    \/ Links
    \/ Write
    \/ Except

Spec == Init /\ [][Next]_vars

(***************************************************************************)
(* parse_scholarly_papers called on its own                                *)
(***************************************************************************)
ParseInputs ==
    SeqsUpTo(HitPool \cup {PaperNoFields}, MaxHits) \cup {<<h>> : h \in AllHits}

ParseInit ==
    /\ uploaded_file = NoFile
    /\ state = "Idle"
    /\ widgets = {}
    /\ error = ""
    /\ table = << >>
    /\ top_n \in 0..MaxLimit
    /\ sort_by = DefaultSortBy
    /\ pc = "call"
    /\ papers \in ParseInputs
    /\ calls = 0
    /\ exhausted = FALSE
    /\ papers_df = EmptyFrame

ParseCall ==
    /\ pc = "call"
    /\ papers_df' = parse_scholarly_papers(papers, top_n)
    /\ pc' = "returned"
    /\ UNCHANGED <<uploaded_file, page, top_n, sort_by, papers, calls, exhausted>>

ParseNext == ParseCall

ParseSpec == ParseInit /\ [][ParseNext]_vars

(***************************************************************************)
(* Properties                                                              *)
(***************************************************************************)
FiveColumns ==
    <<"Title", "Authors", "Publication Year", "Number of Citations", "Link">>

\* C1: parse_scholarly_papers(H, L), L >= 0, returns min(L, |H|) records, the
\* i-th built from the i-th hit of H, under exactly the five columns Title,
\* Authors, Publication Year, Number of Citations, Link in that order, also
\* for an empty H and for hits without fields.
C1_ParseShape ==
    pc = "returned" =>
        /\ papers_df # KeyError
        /\ papers_df.columns = FiveColumns
        /\ Len(papers_df.rows) = Min(top_n, Len(papers))
        /\ \A i \in DOMAIN papers_df.rows :
            /\ DOMAIN papers_df.rows[i] = Range(FiveColumns)
            /\ papers_df.rows[i] = PaperRow(papers[i])

\* The limit cuts the hits: 0 < L < |H|.
C1_Witness ==
    /\ pc = "returned"
    /\ 0 < top_n
    /\ top_n < Len(papers)
    /\ Len(papers_df.rows) = top_n

\* The text of an author list of at most two names.
AuthorsText(list) ==
    CASE Len(list) = 0 -> << >>
      [] Len(list) = 1 -> list[1].v
      [] Len(list) = 2 -> list[1].v \o <<",", " ">> \o list[2].v

\* C2: for every considered hit, a missing title gives "N/A", missing authors
\* the empty string, a missing publication year "N/A", a missing citation
\* count the number 0, a missing url "N/A"; a present field is copied
\* unchanged, the authors joined with ", " in their order; no value is absent
\* and the call does not fail whatever subset of the fields is missing.
C2_Defaults ==
    pc = "returned" =>
        /\ papers_df # KeyError
        /\ \A i \in DOMAIN papers_df.rows :
            LET h == papers[i]
                r == papers_df.rows[i]
                InBib(k) == "bib" \in DOMAIN h /\ k \in DOMAIN h.bib
            IN /\ r["Title"] = IF InBib("title") THEN h.bib.title ELSE NA
               /\ r["Authors"] = IF InBib("author")
                                 THEN Str(AuthorsText(h.bib.author)) ELSE Str(<< >>)
               /\ r["Publication Year"] =
                    IF InBib("pub_year") THEN h.bib.pub_year ELSE NA
               /\ r["Number of Citations"] =
                    IF "num_citations" \in DOMAIN h THEN h.num_citations ELSE Int_(0)
               /\ r["Link"] = IF "pub_url" \in DOMAIN h THEN h.pub_url ELSE NA
               /\ \A c \in Range(FiveColumns) : r[c] # None

\* A hit with two authors whose title and citation count are missing.
C2_Witness ==
    /\ pc = "returned"
    /\ Len(papers_df.rows) >= 1
    /\ "bib" \in DOMAIN papers[1]
    /\ "title" \notin DOMAIN papers[1].bib
    /\ "author" \in DOMAIN papers[1].bib
    /\ Len(papers[1].bib.author) = 2
    /\ "num_citations" \notin DOMAIN papers[1]
    /\ papers_df.rows[1]["Number of Citations"] = Int_(0)

\* The normalized records of the running fetch, before the dedupe step.
Parsed == parse_scholarly_papers(papers, top_n).rows

\* The index of the first record of rows with the given title.
FirstWith(rows, title) ==
    CHOOSE i \in DOMAIN rows :
        /\ rows[i]["Title"] = title
        /\ \A j \in 1..(i - 1) : rows[j]["Title"] # title

Titles(rows) == {rows[i]["Title"] : i \in DOMAIN rows}

\* C3: after the dedupe step no two records have the same Title, every Title
\* of the normalized records survives in the first record that has it, with
\* all the fields of that record, and the survivors keep their arrival order.
C3_DedupeKeepsFirst ==
    pc = "sort" =>
        LET rows == papers_df.rows IN
        /\ \A i, j \in DOMAIN rows : i # j => rows[i]["Title"] # rows[j]["Title"]
        /\ Titles(rows) = Titles(Parsed)
        /\ \A i \in DOMAIN rows : rows[i] = Parsed[FirstWith(Parsed, rows[i]["Title"])]
        /\ \A i, j \in DOMAIN rows :
            i < j => FirstWith(Parsed, rows[i]["Title"]) < FirstWith(Parsed, rows[j]["Title"])

\* Two hits titled "A" arrived, the one with 5 citations first: one record
\* titled "A" is left, with 5 citations, next to another record.
C3_Witness ==
    /\ pc = "sort"
    /\ Len(papers) >= 3
    /\ top_n >= 3
    /\ papers[1] = PaperA1
    /\ papers[2] = PaperA2
    /\ Len(papers_df.rows) = 2
    /\ papers_df.rows[1]["Title"] = Str(<<"A">>)
    /\ papers_df.rows[1]["Number of Citations"] = Int_(5)

\* The records after the dedupe step, as the sort step receives them.
Deduped == drop_duplicates(parse_scholarly_papers(papers, top_n), "Title").rows

\* The integer a value of the sort column is coerced to.
Coerced(x) == fillna(to_numeric(x), 0).v

\* The displayed order is descending by the coerced sort column and holds
\* every deduplicated record once, its sort column coerced, the rest as it was.
SortedDescending ==
    LET rows == papers_df.rows
        col == sort_by
    IN /\ Len(rows) = Len(Deduped)
       /\ Titles(rows) = Titles(Deduped)
       /\ \A i \in DOMAIN rows :
            LET d == Deduped[FirstWith(Deduped, rows[i]["Title"])] IN
            /\ rows[i][col] = Int_(Coerced(d[col]))
            /\ \A c \in Range(FiveColumns) \ {col} : rows[i][c] = d[c]
       /\ \A i, j \in DOMAIN rows : i < j => rows[i][col].v >= rows[j][col].v

\* Records with equal coerced keys are in the order they had after dedupe.
SortedStable ==
    LET rows == papers_df.rows IN
    \A i, j \in DOMAIN rows :
        (i < j /\ rows[i][sort_by] = rows[j][sort_by]) =>
            FirstWith(Deduped, rows[i]["Title"]) < FirstWith(Deduped, rows[j]["Title"])

\* C4 as stated: for either sort key the displayed order is descending by the
\* chosen column coerced to an integer (non-numeric or missing values count
\* as 0), and records with equal keys keep their order after dedupe.
C4_StableDescending == pc = "links" => SortedDescending /\ SortedStable

\* C4 amended: for either sort key the displayed order is descending by the
\* chosen column coerced to an integer (non-numeric or missing values count
\* as 0) and holds every deduplicated record exactly once; the order of
\* records with equal keys is not fixed.
C4_Descending == pc = "links" => SortedDescending

\* The sort moved a record with a numeric year before an earlier record
\* whose year, not numeric, counts as 0.
C4_Witness ==
    /\ pc = "links"
    /\ sort_by = "Publication Year"
    /\ Len(papers_df.rows) = 2
    /\ Deduped[1]["Publication Year"] = NA
    /\ papers_df.rows[2]["Title"] = Deduped[1]["Title"]
    /\ papers_df.rows[2]["Publication Year"] = Int_(0)
    /\ papers_df.rows[1]["Publication Year"].v > 0

\* The rows about to be written whose publication year was the marker "N/A"
\* when they were normalized.
MarkerYearRows ==
    {i \in DOMAIN papers_df.rows :
        Parsed[FirstWith(Parsed, papers_df.rows[i]["Title"])]["Publication Year"] = NA}

\* Every normalized record whose year is the marker has its title in the
\* result, and the rows with a positive year come before the marker rows.
MarkerYearSortedAsZero ==
    /\ \A k \in DOMAIN Parsed :
        Parsed[k]["Publication Year"] = NA =>
            Parsed[k]["Title"] \in Titles(papers_df.rows)
    /\ \A i \in MarkerYearRows : \A j \in DOMAIN papers_df.rows :
        (to_numeric(papers_df.rows[j]["Publication Year"]).t = "int"
            /\ to_numeric(papers_df.rows[j]["Publication Year"]).v > 0) => j < i

\* C5 as stated: sorted by Publication Year, a record whose year is "N/A" is
\* sorted with key 0 and stays in the result, and the Publication Year shown
\* for it is still "N/A".
C5_DisplayKeepsMarker ==
    (pc = "write" /\ sort_by = "Publication Year") =>
        /\ MarkerYearSortedAsZero
        /\ \A i \in MarkerYearRows : papers_df.rows[i]["Publication Year"] = NA

\* C5 amended: sorted by Publication Year, a record whose year is "N/A" is
\* sorted with key 0 and stays in the result, and the Publication Year shown
\* for it is the number 0: the coercion replaces the column.  Sorted by
\* Number of Citations, the Publication Year shown is still "N/A".
C5_DisplayShowsZero ==
    pc = "write" =>
        IF sort_by = "Publication Year"
        THEN /\ MarkerYearSortedAsZero
             /\ \A i \in MarkerYearRows : papers_df.rows[i]["Publication Year"] = Int_(0)
        ELSE \A i \in MarkerYearRows : papers_df.rows[i]["Publication Year"] = NA

\* Sorted by year, a record whose year was "N/A" is about to be shown after a
\* record with a numeric year.
C5_Witness ==
    /\ pc = "write"
    /\ sort_by = "Publication Year"
    /\ Len(papers_df.rows) = 2
    /\ 2 \in MarkerYearRows
    /\ papers_df.rows[2]["Title"] = Str(<<"B">>)
    /\ papers_df.rows[1]["Publication Year"] = Int_(2020)

FetchFailed == pc = "except" \/ (pc = "after_loop" /\ papers = << >>)

\* C6: when the search call raises or the search yields no hit, the handler
\* shows an error message ("No papers found ..." for the empty case), shows
\* no results table for that fetch, does not search again, and leaves the
\* page Ready, where a new fetch can be triggered; it ends in no other way.
C6_FetchFailure ==
    /\ [](FetchFailed => (state = "Fetching" /\ table = << >>))
    /\ [](error \in {NoPapersMsg, FetchErrorMsg} => table = << >>)
    /\ [](state = "Ready" => ENABLED ClickRetrieve)
    /\ [][FetchFailed =>
            /\ state' = "Ready"
            /\ pc' = "idle"
            /\ table' = << >>
            /\ error' = IF pc = "except" THEN FetchErrorMsg ELSE NoPapersMsg]_vars

\* The search gave no hit: the page is Ready and shows "No papers found ...".
C6_Witness ==
    /\ state = "Ready"
    /\ pc = "idle"
    /\ error = NoPapersMsg
    /\ table = << >>

\* C7: while the uploaded table lacks one of the three required columns the
\* page shows the validation error, offers no technology selection and no
\* button, and no fetch can be triggered; the page is Ready, or fetching,
\* only with a file that has all three columns.
C7_SchemaValidation ==
    /\ (uploaded_file.present /\ uploaded_file.readable
            /\ ~(required_columns \subseteq uploaded_file.columns)) =>
        /\ state = "SchemaError"
        /\ error = SchemaErrorMsg
        /\ widgets \cap {"technology", "top_n", "sort_by", "button"} = {}
        /\ pc = "idle"
        /\ ~ENABLED ClickRetrieve
    /\ state \in {"Ready", "Fetching"} =>
        /\ uploaded_file.present
        /\ required_columns \subseteq uploaded_file.columns

\* A table with two of the three columns is in the uploader.
C7_Witness ==
    /\ state = "SchemaError"
    /\ Cardinality(uploaded_file.columns) = 2
    /\ error = SchemaErrorMsg

AfterLoop == {"after_loop", "dedupe", "sort", "links", "write"}

\* C8: the fetch loop calls next at most 2 * topN times, one hit a call; it
\* leaves the loop with 2 * topN hits, or with the hits pulled before the
\* first StopIteration, after which it calls next no more and goes on as
\* after a full fetch, not to the error handler.
C8_BoundedPull ==
    /\ calls <= 2 * top_n
    /\ Len(papers) <= 2 * top_n
    /\ pc = "loop" => (~exhausted /\ Len(papers) = calls)
    /\ pc \in AfterLoop =>
        Len(papers) = IF exhausted THEN calls - 1 ELSE 2 * top_n
    /\ exhausted => pc \in AfterLoop

\* The stream gave more than 2 * topN hits: the loop stopped at the cap.
C8_Witness ==
    /\ pc = "after_loop"
    /\ ~exhausted
    /\ Len(papers) = 2 * top_n
    /\ top_n = 20

\* The position of the n-th occurrence of character ch in s.
NthPos(s, ch, n) ==
    CHOOSE i \in DOMAIN s :
        s[i] = ch /\ Cardinality({j \in 1..(i - 1) : s[j] = ch}) = n - 1

Count(s, ch) == Cardinality({i \in DOMAIN s : s[i] = ch})

\* html is an <a> element with two quoted attributes: its parts.
IsAnchor(html) ==
    /\ Count(html, "\"") = 4
    /\ Count(html, "<") = 2
    /\ Count(html, ">") = 2
    /\ SubSeq(html, 1, NthPos(html, "\"", 1)) =
            <<"<", "a", " ", "h", "r", "e", "f", "=", "\"">>
    /\ SubSeq(html, NthPos(html, "<", 2), Len(html)) = <<"<", "/", "a", ">">>
HrefOf(html) == SubSeq(html, NthPos(html, "\"", 1) + 1, NthPos(html, "\"", 2) - 1)
TargetAttrOf(html) ==
    SubSeq(html, NthPos(html, "\"", 2) + 1, NthPos(html, "\"", 4))
VisibleTextOf(html) ==
    SubSeq(html, NthPos(html, ">", 1) + 1, NthPos(html, "<", 2) - 1)

\* The url of the normalized record that survives with this title.
RawLink(title) == Parsed[FirstWith(Parsed, title)]["Link"]

\* C9: make_clickable turns a url that is not empty and not the marker "N/A"
\* into a hyperlink with the text "View Paper", the url as its target and
\* target="_blank", and anything else into the text "N/A"; the handler
\* applies it after dedupe and sort, which see the urls as normalized.
C9_Links ==
    /\ pc = "dedupe" =>
        \A i \in DOMAIN papers_df.rows : papers_df.rows[i]["Link"] = Parsed[i]["Link"]
    /\ pc \in {"sort", "links"} =>
        \A i \in DOMAIN papers_df.rows :
            papers_df.rows[i]["Link"] = RawLink(papers_df.rows[i]["Title"])
    /\ pc = "write" =>
        \A i \in DOMAIN papers_df.rows :
            LET url == RawLink(papers_df.rows[i]["Title"])
                shown == papers_df.rows[i]["Link"]
            IN IF url.t = "str" /\ url.v # << >> /\ url # NA
               THEN /\ shown.t = "str"
                    /\ IsAnchor(shown.v)
                    /\ HrefOf(shown.v) = url.v
                    /\ TargetAttrOf(shown.v) =
                        <<" ", "t", "a", "r", "g", "e", "t", "=", "\"",
                          "_", "b", "l", "a", "n", "k", "\"">>
                    /\ VisibleTextOf(shown.v) =
                        <<"V", "i", "e", "w", " ", "P", "a", "p", "e", "r">>
               ELSE shown = Str(<<"N", "/", "A">>)

\* Three records are about to be written: one with the url http://x, now a
\* hyperlink, one whose url was empty and one whose url was missing.
C9_Witness ==
    /\ pc = "write"
    /\ \E i, j, k \in DOMAIN papers_df.rows :
        /\ RawLink(papers_df.rows[i]["Title"]) = Str(HttpX)
        /\ HrefOf(papers_df.rows[i]["Link"].v) = HttpX
        /\ RawLink(papers_df.rows[j]["Title"]) = Str(<< >>)
        /\ papers_df.rows[j]["Link"] = NA
        /\ RawLink(papers_df.rows[k]["Title"]) = NA
        /\ papers_df.rows[k]["Link"] = NA

\* The title a hit is normalized to.
TitleOf(h) ==
    IF "bib" \in DOMAIN h /\ "title" \in DOMAIN h.bib THEN h.bib.title
    ELSE Str(<<"N", "/", "A">>)

====
